---------------------------- MODULE Spec2Model ----------------------------
(***************************************************************************)
(* A model of mincovka (src/app.py): the greedy breakdown of euro amounts  *)
(* into banknotes and coins, the Slovak amount parser, the person codes,   *)
(* and the Streamlit session (person list, amount widgets, calculation).   *)
(*                                                                         *)
(* Representation.                                                         *)
(*  - A Python str is a sequence of one-character strings; the euro sign   *)
(*    is written "E" (TLA+ strings are ASCII).                             *)
(*  - A Python float holding a euro amount with two decimals is the record *)
(*    [sign, eur, ct] (sign in {1,-1}, ct in 0..99); the conversions       *)
(*    to_cents and cents_to_eur go between that record and integer cents.  *)
(*    The model covers amounts in the range where a float holds two        *)
(*    decimals exactly.                                                    *)
(*  - A Python dict is a sequence of [k, v] pairs in insertion order; an   *)
(*    assignment to an existing key replaces its value in place.           *)
(***************************************************************************)
EXTENDS Integers, Sequences, FiniteSets, TLC

VARIABLES
    \* --- the Streamlit session (st.session_state and the last script run) ---
    persons,            \* st.session_state.persons: Seq of [id, code, amount]
    next_id,            \* st.session_state.next_id
    calculated,         \* st.session_state.calculated
    per_person_df,      \* st.session_state.per_person_df: None or Seq of rows
    summary_df,         \* st.session_state.summary_df: None or Seq of rows
    amt_txt,            \* the text widgets' state, keyed by person id (amt_txt_<id>)
    validation_errors,  \* the last run's validation_errors list
    do_calc,            \* the last run's do_calc
    budget,             \* interactions left in the session (bounds the exploration)
    \* --- one call of compute_breakdown, statement by statement ---
    b_amount,           \* amount_cents
    b_remainder,        \* remainder
    b_out,              \* out
    b_i,                \* position of the for loop in DENOMS_EUR (next to process)
    b_pc,               \* "loop" | "done"
    \* --- one call of parse_amount_sk ---
    p_raw,              \* raw
    p_res,              \* None, or the returned (ok, value, error)
    \* --- one call of idx_to_person_code, statement by statement ---
    c_in,               \* the argument idx
    c_idx,              \* idx
    c_s,                \* s
    c_pc                \* "loop" | "done"

uiVars == <<persons, next_id, calculated, per_person_df, summary_df, amt_txt,
            validation_errors, do_calc, budget>>
bdVars == <<b_amount, b_remainder, b_out, b_i, b_pc>>
paVars == <<p_raw, p_res>>
coVars == <<c_in, c_idx, c_s, c_pc>>
vars == <<uiVars, bdVars, paVars, coVars>>

None == "None"

----------------------------------------------------------------------------
(* Bounds of the exploration. *)

MaxCents == 20000
MaxLen == 5
MaxIdx == 710

----------------------------------------------------------------------------
(* Python built-ins used by the program. *)

Digits == <<"0", "1", "2", "3", "4", "5", "6", "7", "8", "9">>

DigitValue == ("0" :> 0) @@ ("1" :> 1) @@ ("2" :> 2) @@ ("3" :> 3) @@ ("4" :> 4)
              @@ ("5" :> 5) @@ ("6" :> 6) @@ ("7" :> 7) @@ ("8" :> 8) @@ ("9" :> 9)

\* c.isdigit(), as \d matches
IsDigit(c) == c \in DOMAIN DigitValue

\* int(c) for a digit c
DigitVal(c) == DigitValue[c]

\* str(n) for an int n >= 0
RECURSIVE IntToStr(_)
IntToStr(n) == IF n < 10 THEN <<Digits[n + 1]>>
               ELSE IntToStr(n \div 10) \o <<Digits[(n % 10) + 1]>>

\* int(s): the digits' value; ValueError for anything else
RECURSIVE DigitsVal(_)
DigitsVal(s) == IF s = <<>> THEN 0
                ELSE 10 * DigitsVal(SubSeq(s, 1, Len(s) - 1)) + DigitVal(s[Len(s)])

PyInt(s) == IF s # <<>> /\ \A k \in 1..Len(s) : IsDigit(s[k])
            THEN DigitsVal(s) ELSE "ValueError"

\* s.replace(c, "") for a one-character c
RECURSIVE RemoveChar(_, _)
RemoveChar(s, c) == IF s = <<>> THEN <<>>
                    ELSE IF Head(s) = c THEN RemoveChar(Tail(s), c)
                    ELSE <<Head(s)>> \o RemoveChar(Tail(s), c)

\* s.replace(a, b) for one-character a and b
ReplaceChar(s, a, b) == [k \in 1..Len(s) |-> IF s[k] = a THEN b ELSE s[k]]

IsSpace(c) == c \in {" ", "\t"}

\* s.strip()
RECURSIVE LStrip(_)
LStrip(s) == IF s # <<>> /\ IsSpace(Head(s)) THEN LStrip(Tail(s)) ELSE s

RECURSIVE RStrip(_)
RStrip(s) == IF s # <<>> /\ IsSpace(s[Len(s)])
             THEN RStrip(SubSeq(s, 1, Len(s) - 1)) ELSE s

Strip(s) == RStrip(LStrip(s))

\* c in s
Contains(s, c) == \E k \in 1..Len(s) : s[k] = c

\* d[k] = v
DictSet(d, k, v) ==
    IF \E j \in 1..Len(d) : d[j].k = k
    THEN [j \in 1..Len(d) |-> IF d[j].k = k THEN [k |-> k, v |-> v] ELSE d[j]]
    ELSE Append(d, [k |-> k, v |-> v])

\* d.get(k, default)
DictGet(d, k, default) ==
    IF \E j \in 1..Len(d) : d[j].k = k
    THEN d[CHOOSE j \in 1..Len(d) : d[j].k = k].v
    ELSE default

----------------------------------------------------------------------------
(* Euro amounts held in floats. *)

Eur(e, c) == [sign |-> 1, eur |-> e, ct |-> c]

\* int(round(amount_eur * 100))
to_cents(amount_eur) == amount_eur.sign * (amount_eur.eur * 100 + amount_eur.ct)

\* cents / 100.0
cents_to_eur(cents) ==
    IF cents >= 0 THEN [sign |-> 1, eur |-> cents \div 100, ct |-> cents % 100]
    ELSE [sign |-> -1, eur |-> (-cents) \div 100, ct |-> (-cents) % 100]

\* f"{amount:.2f}".replace(".", ",")
format_eur_sk(amount) ==
    (IF amount.sign = -1 /\ (amount.eur > 0 \/ amount.ct > 0) THEN <<"-">> ELSE <<>>)
    \o IntToStr(amount.eur) \o <<",">>
    \o <<Digits[(amount.ct \div 10) + 1], Digits[(amount.ct % 10) + 1]>>

----------------------------------------------------------------------------
(* Denominations and labels. *)

\* the 20 c coin replaced by a 40 c coin
DENOMS_EUR_40c == <<Eur(100, 0), Eur(50, 0), Eur(20, 0), Eur(10, 0), Eur(5, 0),
                    Eur(2, 0), Eur(1, 0), Eur(0, 50), Eur(0, 40), Eur(0, 10),
                    Eur(0, 5), Eur(0, 2), Eur(0, 1)>>

DENOMS_EUR == <<Eur(100, 0), Eur(50, 0), Eur(20, 0), Eur(10, 0), Eur(5, 0),
                Eur(2, 0), Eur(1, 0), Eur(0, 50), Eur(0, 20), Eur(0, 10),
                Eur(0, 5), Eur(0, 2), Eur(0, 1)>>

\* the banknote/coin test at 0.50 instead of 1
euro_label_half(n) ==
    IF to_cents(n) >= 50
    THEN IntToStr(n.eur) \o <<" ", "E">>
    ELSE IntToStr(to_cents(n)) \o <<" ", "c">>

euro_label(n) ==
    IF n.eur >= 1
    THEN IntToStr(n.eur) \o <<" ", "E">>
    ELSE IntToStr(to_cents(n)) \o <<" ", "c">>

DENOM_LABELS == [k \in 1..Len(DENOMS_EUR) |-> euro_label(DENOMS_EUR[k])]

\* int(round(denom * 100))
denom_cents(denom) == to_cents(denom)

----------------------------------------------------------------------------
(* compute_breakdown: the loop body, and the whole call. *)

\* the loop body without "remainder -= int(cnt) * denom_cents"
BreakdownStep_keep(st, denom) ==
    LET cnt == st.remainder \div denom_cents(denom)
    IN  [remainder |-> st.remainder,
         out |-> DictSet(st.out, euro_label(denom), cnt)]

\* one iteration of the for loop, on st = [remainder, out]
BreakdownStep(st, denom) ==
    LET cnt == st.remainder \div denom_cents(denom)
    IN  [remainder |-> st.remainder - cnt * denom_cents(denom),
         out |-> DictSet(st.out, euro_label(denom), cnt)]

\* the for loop from position k on. (An iteration's result is bound as the one
\* element of a set before the next iteration starts, here and in the other
\* loops: evaluation then follows the program's order.)
RECURSIVE BreakdownFrom(_, _)
BreakdownFrom(st, k) ==
    IF k > Len(DENOMS_EUR) THEN st
    ELSE CHOOSE r \in {BreakdownFrom(s2, k + 1) :
                           s2 \in {BreakdownStep(st, DENOMS_EUR[k])}} : TRUE

compute_breakdown(amount_cents) ==
    (CHOOSE r \in {BreakdownFrom(st, 1) :
                      st \in {[remainder |-> amount_cents, out |-> <<>>]}} : TRUE).out

\* euro items valued in euros, cent items in cents
ItemValue_units(denom, cnt) ==
    PyInt(Strip(RemoveChar(RemoveChar(denom, "E"), "c"))) * cnt

\* the value one item of the dict adds to the total
ItemValue(denom, cnt) ==
    IF Contains(denom, "E")
    THEN PyInt(Strip(RemoveChar(denom, "E"))) * 100 * cnt
    ELSE PyInt(Strip(RemoveChar(denom, "c"))) * cnt

RECURSIVE ValueFrom(_, _)
ValueFrom(breakdown, k) ==
    IF k > Len(breakdown) THEN 0
    ELSE ItemValue(breakdown[k].k, breakdown[k].v) + ValueFrom(breakdown, k + 1)

breakdown_value_cents(breakdown) == ValueFrom(breakdown, 1)

BdInit ==
    /\ b_amount \in 0..MaxCents
    /\ b_remainder = b_amount
    /\ b_out = <<>>
    /\ b_i = 1
    /\ b_pc = "loop"

BdIdle ==
    /\ b_amount = 0 /\ b_remainder = 0 /\ b_out = <<>> /\ b_i = 1 /\ b_pc = "done"

\* for denom in DENOMS_EUR: one iteration
BreakdownLoop ==
    /\ b_pc = "loop"
    /\ b_i <= Len(DENOMS_EUR)
    /\ LET st == BreakdownStep([remainder |-> b_remainder, out |-> b_out],
                               DENOMS_EUR[b_i])
       IN  /\ b_remainder' = st.remainder
           /\ b_out' = st.out
    /\ b_i' = b_i + 1
    /\ UNCHANGED <<b_amount, b_pc>>
    /\ UNCHANGED <<uiVars, paVars, coVars>>

\* return out
BreakdownReturn ==
    /\ b_pc = "loop"
    /\ b_i > Len(DENOMS_EUR)
    /\ b_pc' = "done"
    /\ UNCHANGED <<b_amount, b_remainder, b_out, b_i>>
    /\ UNCHANGED <<uiVars, paVars, coVars>>

----------------------------------------------------------------------------
(* parse_amount_sk. *)

ErrFormat == "Zadajte cislo vo formate napr. 12,34 (max. 2 desatinne miesta)."
ErrInvalid == "Neplatna suma."
ErrNegative == "Suma nemoze byt zaporna."

\* how many characters the greedy \d+ consumes at the start of s
RECURSIVE LeadingDigits(_)
LeadingDigits(s) == IF s # <<>> /\ IsDigit(Head(s))
                    THEN 1 + LeadingDigits(Tail(s)) ELSE 0

\* the pattern with an optional leading minus: -?\d+([,.]\d{0,2})?
ReFullMatch_minus(s) ==
    LET t == IF s # <<>> /\ Head(s) = "-" THEN Tail(s) ELSE s
        n == LeadingDigits(t)
        rest == SubSeq(t, n + 1, Len(t))
    IN  /\ n >= 1
        /\ \/ rest = <<>>
           \/ /\ rest[1] \in {",", "."}
              /\ Len(rest) - 1 <= 2
              /\ LeadingDigits(Tail(rest)) = Len(rest) - 1

\* re.fullmatch(r"\d+([,.]\d{0,2})?", s)
ReFullMatch(s) ==
    LET n == LeadingDigits(s)
        rest == SubSeq(s, n + 1, Len(s))
    IN  /\ n >= 1
        /\ \/ rest = <<>>
           \/ /\ rest[1] \in {",", "."}
              /\ Len(rest) - 1 <= 2
              /\ LeadingDigits(Tail(rest)) = Len(rest) - 1

\* float(s) on a decimal literal: [sign][digits][.[digits]] with at least one
\* digit; ValueError otherwise (exponents, inf, nan and underscores need
\* characters outside the model's alphabet)
PyFloat(s) ==
    LET signed == s # <<>> /\ Head(s) \in {"+", "-"}
        body == IF signed THEN Tail(s) ELSE s
        nw == LeadingDigits(body)
        rest == SubSeq(body, nw + 1, Len(body))
        dotted == rest # <<>> /\ rest[1] = "."
        frac == IF dotted THEN Tail(rest) ELSE <<>>
    IN  IF /\ rest = <<>> \/ dotted
           /\ LeadingDigits(frac) = Len(frac)
           /\ nw + Len(frac) >= 1
        THEN [raised |-> None, sign |-> IF signed /\ Head(s) = "-" THEN -1 ELSE 1,
              whole |-> SubSeq(body, 1, nw), frac |-> frac]
        ELSE [raised |-> "ValueError", sign |-> 1, whole |-> <<>>, frac |-> <<>>]

\* val < 0
FloatNegative(val) ==
    /\ val.sign = -1
    /\ \E k \in 1..Len(val.whole \o val.frac) : (val.whole \o val.frac)[k] # "0"

\* round(val + 1e-12, 2), for val >= 0
RoundToCents(val) ==
    LET f == val.frac \o <<"0", "0", "0">>
        up == IF DigitVal(f[3]) >= 5 THEN 1 ELSE 0
        c == DigitsVal(val.whole) * 100 + DigitVal(f[1]) * 10 + DigitVal(f[2]) + up
    IN  cents_to_eur(c)

parse_amount_sk(raw) ==
    IF raw = None THEN <<TRUE, Eur(0, 0), "">>
    ELSE LET s0 == RemoveChar(Strip(raw), " ")
         IN  IF s0 = <<>> THEN <<TRUE, Eur(0, 0), "">>
             ELSE IF ~ReFullMatch(s0)
                  THEN <<FALSE, Eur(0, 0), ErrFormat>>
             ELSE LET val == PyFloat(ReplaceChar(s0, ",", "."))
                  IN  IF val.raised = "ValueError"
                      THEN <<FALSE, Eur(0, 0), ErrInvalid>>
                      ELSE IF FloatNegative(val)
                           THEN <<FALSE, Eur(0, 0), ErrNegative>>
                           ELSE <<TRUE, RoundToCents(val), "">>

\* the characters an operator may type
Alphabet == {"5", ",", ".", "-", "a", " ", "\t"}

PaInit ==
    /\ p_raw \in {None, <<>>}
    /\ p_res = None

PaIdle ==
    /\ p_raw = None /\ p_res = None

\* the operator types one more character into the field
TypeChar ==
    /\ p_res = None
    /\ p_raw # None
    /\ Len(p_raw) < MaxLen
    /\ \E ch \in Alphabet : p_raw' = Append(p_raw, ch)
    /\ UNCHANGED p_res
    /\ UNCHANGED <<uiVars, bdVars, coVars>>

\* ok, val, err = parse_amount_sk(raw)
ParseCall ==
    /\ p_res = None
    /\ p_res' = parse_amount_sk(p_raw)
    /\ UNCHANGED p_raw
    /\ UNCHANGED <<uiVars, bdVars, coVars>>

----------------------------------------------------------------------------
(* idx_to_person_code: the loop body, and the whole call. *)

Letters == <<"A", "B", "C", "D", "E", "F", "G", "H", "I", "J", "K", "L", "M",
             "N", "O", "P", "Q", "R", "S", "T", "U", "V", "W", "X", "Y", "Z">>

\* chr(n) for the upper-case letters
Chr(n) == Letters[n - 64]

\* the loop body with divmod(idx, 26): plain base 26
CodeStep_plain(st) ==
    LET q == st.idx \div 26
        rem == st.idx % 26
    IN  [idx |-> q, s |-> <<Chr(65 + rem)>> \o st.s]

\* one iteration of the while loop, on st = [idx, s]
CodeStep(st) ==
    LET q == (st.idx - 1) \div 26
        rem == (st.idx - 1) % 26
    IN  [idx |-> q, s |-> <<Chr(65 + rem)>> \o st.s]

RECURSIVE CodeLoopFrom(_)
CodeLoopFrom(st) == IF st.idx > 0 THEN CodeLoopFrom(CodeStep(st)) ELSE st.s

idx_to_person_code(idx) == CodeLoopFrom([idx |-> idx + 1, s |-> <<>>])

CoInit ==
    /\ c_in \in 0..MaxIdx
    /\ c_idx = c_in + 1
    /\ c_s = <<>>
    /\ c_pc = "loop"

CoIdle ==
    /\ c_in = 0 /\ c_idx = 0 /\ c_s = <<"A">> /\ c_pc = "done"

\* while idx > 0: one iteration
CodeLoop ==
    /\ c_pc = "loop"
    /\ c_idx > 0
    /\ LET st == CodeStep([idx |-> c_idx, s |-> c_s])
       IN  /\ c_idx' = st.idx
           /\ c_s' = st.s
    /\ UNCHANGED <<c_in, c_pc>>
    /\ UNCHANGED <<uiVars, bdVars, paVars>>

\* return s
CodeReturn ==
    /\ c_pc = "loop"
    /\ ~(c_idx > 0)
    /\ c_pc' = "done"
    /\ UNCHANGED <<c_in, c_idx, c_s>>
    /\ UNCHANGED <<uiVars, bdVars, paVars>>

----------------------------------------------------------------------------
(* The session before any interaction (lines 114-123), used as the idle    *)
(* session of the specifications of single calls.                          *)

UiStart ==
    /\ persons = <<>>
    /\ next_id = 1
    /\ calculated = FALSE
    /\ per_person_df = None
    /\ summary_df = None
    /\ amt_txt = [i \in {} |-> <<>>]
    /\ validation_errors = <<>>
    /\ do_calc = FALSE

UiIdle == UiStart /\ budget = 0

----------------------------------------------------------------------------
(* The script, run once per interaction (lines 138-304). *)

PersonLimit == 100
AddBatch == 10

Min2(a, b) == IF a < b THEN a ELSE b

\* {"id": next_id, "code": idx_to_person_code(len(persons)), "amount": 0.0}
\* appended, and next_id += 1, on st = [persons, next_id, calculated]
AppendPerson(st) ==
    [st EXCEPT !.persons = Append(st.persons,
                               [id |-> st.next_id,
                                code |-> idx_to_person_code(Len(st.persons)),
                                amount |-> Eur(0, 0)]),
               !.next_id = st.next_id + 1]

\* the add handler with "<=" for "<"
AddPersonHandler_le(st) ==
    IF Len(st.persons) <= PersonLimit
    THEN [AppendPerson(st) EXCEPT !.calculated = FALSE]
    ELSE st

\* the handler of the "add person" button
AddPersonHandler(st) ==
    IF Len(st.persons) < PersonLimit
    THEN [AppendPerson(st) EXCEPT !.calculated = FALSE]
    ELSE st

\* for _ in range(n)
RECURSIVE AppendPersons(_, _)
AppendPersons(st, n) ==
    IF n <= 0 THEN st
    ELSE CHOOSE r \in {AppendPersons(s2, n - 1) : s2 \in {AppendPerson(st)}} : TRUE

\* the handler of the "add 10 persons" button
AddTenHandler(st) ==
    LET remaining == PersonLimit - Len(st.persons)
        add_n == Min2(AddBatch, remaining)
    IN  IF add_n <= 0 THEN st
        ELSE [AppendPersons(st, add_n) EXCEPT !.calculated = FALSE]

\* what a text widget returns: the edit of this run, else the text the widget
\* holds, else (a widget rendered for the first time) value=default_txt
WidgetText(i, ps, txt, ev) ==
    IF ev.type = "edit" /\ ev.id = i THEN ev.raw
    ELSE IF i \in DOMAIN txt THEN txt[i]
    ELSE format_eur_sk((CHOOSE p \in {ps[k] : k \in 1..Len(ps)} : p.id = i).amount)

\* lines 198-202, r = parse_amount_sk(raw): the person after them
AmountUpdate(p, r) ==
    IF r[1] THEN (IF r[2] # p.amount THEN [p EXCEPT !.amount = r[2]] ELSE p)
    ELSE p

\* an amount change that leaves calculated alone
AmountChanged_never(p, r) == FALSE

\* lines 199-202: whether calculated is reset for this person
AmountChanged(p, r) == r[1] /\ r[2] # p.amount

\* one iteration of the loop over the persons (lines 183-210) for the person p
\* whose widget returns raw: the person after it, whether calculated is reset,
\* and what is appended to validation_errors
RenderStep(p, raw) ==
    CHOOSE x \in {[person |-> AmountUpdate(p, r),
                   changed |-> AmountChanged(p, r),
                   errors |-> IF r[1] THEN <<>> ELSE <<(<<p.code, r[3]>>)>>] :
                  r \in {parse_amount_sk(raw)}} : TRUE

\* the loop over the persons with the widgets' texts txt
RenderLoop(ps, txt) ==
    CHOOSE x \in
        {[persons |-> [k \in 1..Len(ps) |-> steps[k].person],
          changed |-> \E k \in 1..Len(ps) : steps[k].changed,
          validation_errors |->
              LET failed == SelectSeq(steps, LAMBDA st : st.errors # <<>>)
              IN  [k \in 1..Len(failed) |-> failed[k].errors[1]]] :
         steps \in {SubSeq([k \in 1..Len(ps) |-> RenderStep(ps[k], txt[ps[k].id])],
                           1, Len(ps))}} : TRUE

\* the button never disabled
CalcDisabled_never(errors) == FALSE

\* disabled=(len(validation_errors) > 0)
CalcDisabled(errors) == Len(errors) > 0

\* st.button: a disabled button is not clicked
ButtonValue(clicked, disabled) == clicked /\ ~disabled

\* the names of the columns that are not denominations, and of the total row
ColOsoba == <<"Osoba">>
ColSuma == <<"Suma (EUR)">>
ColKontrola == <<"Kontrola (EUR)">>
ColRozdiel == <<"Rozdiel (EUR)">>
Spolu == <<"SPOLU">>

\* for lbl in DENOM_LABELS: row[lbl] = ...; summary_counts[lbl] += ...
RECURSIVE LabelLoop(_, _, _)
LabelLoop(acc, breakdown, j) ==
    IF j > Len(DENOM_LABELS) THEN acc
    ELSE LET lbl == DENOM_LABELS[j]
         IN  CHOOSE r \in {LabelLoop(a, breakdown, j + 1) :
                 a \in {[row |-> DictSet(acc.row, lbl, DictGet(breakdown, lbl, 0)),
                         summary_counts |->
                             DictSet(acc.summary_counts, lbl,
                                     DictGet(acc.summary_counts, lbl, 0)
                                         + DictGet(breakdown, lbl, 0))]}} : TRUE

\* one iteration of "for p in st.session_state.persons" (lines 240-254),
\* on acc = [rows, summary_counts, summary_total_cents]
PersonStep(acc, p) ==
    LET amt_cents == to_cents(p.amount)
        Rest(breakdown, computed_cents) ==
            LET row0 == <<[k |-> ColOsoba, v |-> p.code],
                          [k |-> ColSuma, v |-> cents_to_eur(amt_cents)]>>
                Row(l) ==
                    DictSet(DictSet(l.row, ColKontrola, cents_to_eur(computed_cents)),
                            ColRozdiel, cents_to_eur(amt_cents - computed_cents))
            IN  CHOOSE r \in
                    {[rows |-> Append(acc.rows, Row(l)),
                      summary_counts |-> l.summary_counts,
                      summary_total_cents |-> acc.summary_total_cents + computed_cents] :
                     l \in {LabelLoop([row |-> row0,
                                       summary_counts |-> acc.summary_counts],
                                      breakdown, 1)}} : TRUE
    IN  CHOOSE r \in
            {CHOOSE r2 \in {Rest(breakdown, computed_cents) :
                               computed_cents \in {breakdown_value_cents(breakdown)}} : TRUE :
             breakdown \in {compute_breakdown(amt_cents)}} : TRUE

\* the iterations for the persons ps[lo..hi], in order (as two halves, one
\* after the other, when there are several)
RECURSIVE PersonLoop(_, _, _, _)
PersonLoop(acc, ps, lo, hi) ==
    IF lo > hi THEN acc
    ELSE IF lo = hi THEN PersonStep(acc, ps[lo])
    ELSE CHOOSE r \in {PersonLoop(a, ps, ((lo + hi) \div 2) + 1, hi) :
                           a \in {PersonLoop(acc, ps, lo, (lo + hi) \div 2)}} : TRUE

\* summary_df["Pocet kusov"].sum(); the columns Nominal, "Pocet kusov" and
\* "Suma (EUR)" are the fields Nominal, Pocet_kusov and Suma_EUR
RECURSIVE ColumnSum(_, _)
ColumnSum(rows, k) ==
    IF k = 0 THEN 0 ELSE ColumnSum(rows, k - 1) + rows[k].Pocet_kusov

\* lines 236-278: [per_person_df, summary_df]
Calculate(ps) ==
    LET Tables(acc) ==
            LET sum_rows ==
                    [j \in 1..Len(DENOMS_EUR) |->
                        LET cnt == DictGet(acc.summary_counts, DENOM_LABELS[j], 0)
                            value_cents == cnt * denom_cents(DENOMS_EUR[j])
                        IN  [Nominal |-> DENOM_LABELS[j],
                             Pocet_kusov |-> cnt,
                             Suma_EUR |-> cents_to_eur(value_cents)]]
            IN  [per_person_df |-> acc.rows,
                 summary_df |->
                     Append(sum_rows,
                            [Nominal |-> Spolu,
                             Pocet_kusov |-> ColumnSum(sum_rows, Len(sum_rows)),
                             Suma_EUR |-> cents_to_eur(acc.summary_total_cents)])]
    IN  CHOOSE r \in
            {Tables(acc) :
             acc \in {PersonLoop([rows |-> <<>>,
                                  summary_counts |->
                                      [j \in 1..Len(DENOM_LABELS) |->
                                          [k |-> DENOM_LABELS[j], v |-> 0]],
                                  summary_total_cents |-> 0],
                                 ps, 1, Len(ps))}} : TRUE

Ids(ps) == {ps[k].id : k \in 1..Len(ps)}

\* [p for p in persons if p["id"] not in to_delete_ids]
WithoutIds(ps, ids) == SelectSeq(ps, LAMBDA p : p.id \notin ids)

\* the button handlers at the top of the script (lines 141-161), on
\* st = [persons, next_id, calculated]
Handlers(st, ev) ==
    IF ev.type = "add" THEN AddPersonHandler(st)
    ELSE IF ev.type = "add10" THEN AddTenHandler(st)
    ELSE st

\* the texts the widgets of the persons ps return in this run
WidgetTexts(ps, txt, ev) == [i \in Ids(ps) |-> WidgetText(i, ps, txt, ev)]

\* the session a run leaves: fields of st1 and of the run, the stored tables
\* as they were
Session(st1, txt, errors, dc) ==
    [persons |-> st1.persons, next_id |-> st1.next_id,
     calculated |-> st1.calculated,
     per_person_df |-> per_person_df, summary_df |-> summary_df,
     amt_txt |-> txt, validation_errors |-> errors, do_calc |-> dc]

\* lines 212-215: the persons are filtered, calculated is reset, and st.rerun()
\* runs the script once more with no button pressed
DeleteAndRerun(st1, r, txt, to_delete_ids) ==
    CHOOSE n \in
        {CHOOSE n3 \in
             {Session([st1 EXCEPT !.persons = r3.persons, !.calculated = FALSE],
                      [i \in Ids(ps3) |-> txt[i]], r3.validation_errors, FALSE) :
              r3 \in {RenderLoop(ps3, txt)}} : TRUE :
         ps3 \in {WithoutIds(r.persons, to_delete_ids)}} : TRUE

\* lines 219-282: the calculate button and the calculation
CalculateSection(st1, r, txt, ev) ==
    LET dc == ButtonValue(ev.type = "calc", CalcDisabled(r.validation_errors))
        calc2 == IF r.changed THEN FALSE ELSE st1.calculated
        base == Session([st1 EXCEPT !.persons = r.persons, !.calculated = calc2],
                        txt, r.validation_errors, dc)
    IN  IF dc
        THEN CHOOSE n \in {[base EXCEPT !.per_person_df = c.per_person_df,
                                        !.summary_df = c.summary_df,
                                        !.calculated = TRUE] :
                           c \in {Calculate(r.persons)}} : TRUE
        ELSE base

\* lines 168-282 with the widgets' texts txt and the render loop's result r
PersonsSection(st1, r, txt, ev) ==
    LET to_delete_ids == IF ev.type = "delete" THEN {ev.id} ELSE {}
    IN  IF to_delete_ids # {}
        THEN DeleteAndRerun(st1, r, txt, to_delete_ids)
        ELSE CalculateSection(st1, r, txt, ev)

\* One run of the script on the interaction ev = [type, id, raw]: the session
\* it leaves.
ScriptRun(ev) ==
    CHOOSE n \in
        {IF Len(st1.persons) = 0
         THEN Session(st1, [i \in {} |-> <<>>], <<>>, FALSE)
         ELSE CHOOSE n2 \in
                  {CHOOSE n3 \in {PersonsSection(st1, r, txt, ev) :
                                    r \in {RenderLoop(st1.persons, txt)}} : TRUE :
                   txt \in {WidgetTexts(st1.persons, amt_txt, ev)}} : TRUE :
         st1 \in {Handlers([persons |-> persons, next_id |-> next_id,
                            calculated |-> calculated], ev)}} : TRUE

\* the texts an operator types into an amount field
RawInputs == {<<"1", "2", ",", "3", "4">>, <<"0", ".", "6", "6">>, <<"-", "5">>}

\* the rows whose field or delete button the operator uses: the first and the last
TargetIds == IF persons = <<>> THEN {}
             ELSE {persons[1].id, persons[Len(persons)].id}

Event(type, id, raw) == [type |-> type, id |-> id, raw |-> raw]

\* one interaction: the script runs on it and leaves the session
Interaction(ev) ==
    /\ budget' = budget - 1
    /\ \E n \in {ScriptRun(ev)} :
           /\ persons' = n.persons
           /\ next_id' = n.next_id
           /\ calculated' = n.calculated
           /\ per_person_df' = n.per_person_df
           /\ summary_df' = n.summary_df
           /\ amt_txt' = n.amt_txt
           /\ validation_errors' = n.validation_errors
           /\ do_calc' = n.do_calc
    /\ UNCHANGED <<bdVars, paVars, coVars>>

ClickAdd ==
    /\ budget > 0
    /\ Interaction(Event("add", 0, <<>>))

ClickAddTen ==
    /\ budget > 0
    /\ Interaction(Event("add10", 0, <<>>))

EditAmount ==
    \E i \in TargetIds : \E raw \in RawInputs :
        /\ budget > 0
        /\ raw # amt_txt[i]
        /\ Interaction(Event("edit", i, raw))

ClickDelete ==
    \E i \in TargetIds :
        /\ budget > 0
        /\ Interaction(Event("delete", i, <<>>))

\* the calculate button is on the page only when there are persons
ClickCalc ==
    /\ budget > 0
    /\ persons # <<>>
    /\ Interaction(Event("calc", 0, <<>>))

MaxSteps == 5
MaxStepsCap == 2
MaxBelowCap == 11

\* the session after n clicks on "add person"
AfterAdds(n) ==
    /\ persons = [k \in 1..n |-> [id |-> k, code |-> idx_to_person_code(k - 1),
                                  amount |-> Eur(0, 0)]]
    /\ next_id = n + 1
    /\ calculated = FALSE
    /\ per_person_df = None
    /\ summary_df = None
    /\ amt_txt = [i \in 1..n |-> format_eur_sk(Eur(0, 0))]
    /\ validation_errors = <<>>
    /\ do_calc = FALSE

UiNext == ClickAdd \/ ClickAddTen \/ EditAmount \/ ClickDelete \/ ClickCalc

Init == UiStart /\ budget = MaxSteps /\ BdIdle /\ PaIdle /\ CoIdle
Spec == Init /\ [][UiNext]_vars

\* sessions that MaxBelowCap or fewer clicks on "add person" separate from the limit
InitCap ==
    /\ \E n \in (PersonLimit - MaxBelowCap)..PersonLimit : AfterAdds(n)
    /\ budget = MaxStepsCap
    /\ BdIdle /\ PaIdle /\ CoIdle
SpecCap == InitCap /\ [][UiNext]_vars

----------------------------------------------------------------------------
(* Specifications of single calls. *)

BdNext == BreakdownLoop \/ BreakdownReturn
InitBreakdown == BdInit /\ UiIdle /\ PaIdle /\ CoIdle
SpecBreakdown == InitBreakdown /\ [][BdNext]_vars

PaNext == TypeChar \/ ParseCall
InitParse == PaInit /\ UiIdle /\ BdIdle /\ CoIdle
SpecParse == InitParse /\ [][PaNext]_vars

CoNext == CodeLoop \/ CodeReturn
InitCode == CoInit /\ UiIdle /\ BdIdle /\ PaIdle
SpecCode == InitCode /\ [][CoNext]_vars

----------------------------------------------------------------------------
(* Properties of compute_breakdown and breakdown_value_cents. *)

NDenoms == Len(DENOMS_EUR)

\* the cents issued by the first k entries of out, each valued by its denomination
RECURSIVE Issued(_, _)
Issued(out, k) ==
    IF k = 0 THEN 0
    ELSE Issued(out, k - 1) + out[k].v * denom_cents(DENOMS_EUR[k])

\* the number of pieces in out
RECURSIVE Pieces(_, _)
Pieces(out, k) == IF k = 0 THEN 0 ELSE Pieces(out, k - 1) + out[k].v

\* C1: when compute_breakdown(C) has returned, the value breakdown_value_cents
\* reads back from the label keys equals C, and the difference "input minus
\* reconstructed" shown in the Rozdiel column is 0.00.
Exactness ==
    b_pc = "done" =>
        /\ breakdown_value_cents(b_out) = b_amount
        /\ cents_to_eur(b_amount - breakdown_value_cents(b_out)) = Eur(0, 0)

ExactnessWitness ==
    /\ b_pc = "done"
    /\ b_amount = 18888
    /\ Len(b_out) = NDenoms
    /\ \A k \in 1..NDenoms : b_out[k].v = 1
    /\ breakdown_value_cents(b_out) = 18888

\* the fewest pieces that make each amount 0..n-1, given those for 0..n-2:
\* one piece more than the best of the amounts one denomination below
MinNext(t) ==
    LET n == Len(t)
        c == {t[n - denom_cents(DENOMS_EUR[k]) + 1] :
                 k \in {j \in 1..NDenoms : denom_cents(DENOMS_EUR[j]) <= n}}
    IN  1 + CHOOSE m \in c : \A x \in c : m <= x

RECURSIVE MinExtend(_, _)
MinExtend(t, k) ==
    IF Len(t) = 0 \/ k = 0 THEN t
    ELSE IF k = 1 THEN Append(t, MinNext(t))
    ELSE MinExtend(MinExtend(t, k \div 2), k - (k \div 2))

\* (Len(t) is read first so that t is computed before the table grows.)
\* MinPieces[C + 1]: the minimum number of pieces over all multisets of the
\* denominations whose values sum to C, for C in 0..MaxCents
MinPieces == MinExtend(<<0>>, MaxCents)

\* C4: the number of pieces compute_breakdown(C) issues is the minimum over all
\* multisets of the 13 denominations that sum to C.
GreedyOptimal ==
    b_pc = "done" => Pieces(b_out, Len(b_out)) = MinPieces[b_amount + 1]

GreedyOptimalWitness ==
    /\ b_pc = "done"
    /\ b_amount = 1234
    /\ Pieces(b_out, Len(b_out)) = 6
    /\ MinPieces[1235] = 6

\* C9: the denominations are strictly descending and processed in that order;
\* each count is the floor of the remainder before it by the denomination, so
\* it is >= 0 and leaves a remainder >= 0 and below the denomination; after the
\* 1 cent coin the remainder is 0; 0 gives no piece and 10000 one 100 euro note.
GreedyStep ==
    /\ \A k \in 1..(NDenoms - 1) :
          denom_cents(DENOMS_EUR[k]) > denom_cents(DENOMS_EUR[k + 1])
    /\ Len(b_out) = b_i - 1
    /\ \A k \in 1..Len(b_out) :
          LET before == b_amount - Issued(b_out, k - 1)
              after == b_amount - Issued(b_out, k)
              d == denom_cents(DENOMS_EUR[k])
          IN  /\ b_out[k].k = DENOM_LABELS[k]
              /\ b_out[k].v = before \div d
              /\ b_out[k].v >= 0
              /\ after >= 0 /\ after < d
    /\ b_remainder = b_amount - Issued(b_out, Len(b_out))
    /\ b_pc = "done" =>
          /\ Len(b_out) = NDenoms
          /\ b_remainder = 0
          /\ b_amount = 0 => \A k \in 1..NDenoms : b_out[k].v = 0
          /\ b_amount = 10000 =>
                \A k \in 1..NDenoms : b_out[k].v = IF k = 1 THEN 1 ELSE 0

GreedyStepWitness ==
    /\ b_pc = "done"
    /\ b_amount = 10000
    /\ DictGet(b_out, <<"1", "0", "0", " ", "E">>, 0) = 1
    /\ b_remainder = 0

----------------------------------------------------------------------------
(* Properties of parse_amount_sk. *)

AllDigits(s) == \A k \in 1..Len(s) : IsDigit(s[k])

\* one or more digits, optionally one separator and zero to two digits
NumberShape(s) ==
    \E n \in 1..Len(s) :
        /\ AllDigits(SubSeq(s, 1, n))
        /\ \/ n = Len(s)
           \/ /\ s[n + 1] \in {",", "."}
              /\ Len(s) - (n + 1) <= 2
              /\ AllDigits(SubSeq(s, n + 2, Len(s)))

SeparatorCount(s) == Cardinality({k \in 1..Len(s) : s[k] \in {",", "."}})

\* C5: with the surrounding whitespace stripped and the spaces removed, an empty
\* input succeeds with zero; another input succeeds iff it has the number shape;
\* letters, a minus sign, a leading separator, several separators or three
\* decimals fail; and every failure is the format error.
ParseOutcome ==
    (p_res # None /\ p_raw # None) =>
        LET s == RemoveChar(Strip(p_raw), " ")
        IN  /\ s = <<>> => p_res = <<TRUE, Eur(0, 0), "">>
            /\ s # <<>> => (p_res[1] <=> NumberShape(s))
            /\ p_res[1] => p_res[3] = ""
            /\ ~p_res[1] => p_res[3] = ErrFormat
            /\ p_res[3] \notin {ErrInvalid, ErrNegative}
            /\ (\/ Contains(s, "a") \/ Contains(s, "-") \/ Contains(s, "\t")
                \/ (s # <<>> /\ Head(s) \in {",", "."})
                \/ SeparatorCount(s) >= 2
                \/ \E k \in 1..Len(s) : s[k] \in {",", "."} /\ Len(s) - k >= 3)
               => ~p_res[1]

ParseOutcomeWitness ==
    /\ p_raw # None
    /\ p_res # None
    /\ p_raw = <<"-", "5">>
    /\ p_res = <<FALSE, Eur(0, 0), ErrFormat>>

----------------------------------------------------------------------------
(* Properties of idx_to_person_code. *)

LetterIndex(c) == CHOOSE k \in 1..26 : Letters[k] = c

\* the number a string of letters writes in bijective base 26 (A = 1 .. Z = 26)
RECURSIVE BijectiveValue(_)
BijectiveValue(s) ==
    IF s = <<>> THEN 0
    ELSE 26 * BijectiveValue(SubSeq(s, 1, Len(s) - 1)) + LetterIndex(s[Len(s)])

\* C6: the loop runs at most idx + 1 times and then returns; the code returned
\* for idx writes idx + 1 in bijective base 26, no other index up to MaxIdx
\* gets the same code, and 0, 1, 25, 26, 27, 701, 702 give A, B, Z, AA, AB, ZZ, AAA.
CodeEncoding ==
    /\ c_idx >= 0
    /\ c_idx + Len(c_s) <= c_in + 1
    /\ c_pc = "done" \/ ENABLED CoNext
    /\ c_pc = "done" =>
          /\ Len(c_s) >= 1
          /\ \A k \in 1..Len(c_s) : \E l \in 1..26 : Letters[l] = c_s[k]
          /\ BijectiveValue(c_s) = c_in + 1
          /\ \A j \in 0..MaxIdx : j # c_in => idx_to_person_code(j) # c_s
          /\ c_in = 0 => c_s = <<"A">>
          /\ c_in = 1 => c_s = <<"B">>
          /\ c_in = 25 => c_s = <<"Z">>
          /\ c_in = 26 => c_s = <<"A", "A">>
          /\ c_in = 27 => c_s = <<"A", "B">>
          /\ c_in = 701 => c_s = <<"Z", "Z">>
          /\ c_in = 702 => c_s = <<"A", "A", "A">>

CodeEncodingWitness ==
    /\ c_pc = "done"
    /\ c_in = 702
    /\ c_s = <<"A", "A", "A">>

----------------------------------------------------------------------------
(* Properties of the session. *)

\* C2: no two live persons of the person list have the same code.
UniqueCodes ==
    \A i, j \in 1..Len(persons) : i # j => persons[i].code # persons[j].code

\* the sum of column col over the first k rows of the per-person table
RECURSIVE CountTotal(_, _, _)
CountTotal(rows, col, k) ==
    IF k = 0 THEN 0 ELSE CountTotal(rows, col, k - 1) + DictGet(rows[k], col, 0)

\* the cents of the reconstructed values (Kontrola) of the first k rows
RECURSIVE KontrolaTotal(_, _)
KontrolaTotal(rows, k) ==
    IF k = 0 THEN 0
    ELSE KontrolaTotal(rows, k - 1) + to_cents(DictGet(rows[k], ColKontrola, Eur(0, 0)))

\* the cents of the values of the first k rows of the summary
RECURSIVE SummaryValue(_, _)
SummaryValue(rows, k) ==
    IF k = 0 THEN 0 ELSE SummaryValue(rows, k - 1) + to_cents(rows[k].Suma_EUR)

\* C3: in the stored summary, each denomination's count is the sum of that
\* denomination's counts over all persons and its value is count x the
\* denomination's cents; the SPOLU row's total, which is the sum of the
\* persons' reconstructed values, equals the sum of the 13 values.
AggregationConsistent ==
    summary_df # None =>
        /\ Len(summary_df) = NDenoms + 1
        /\ \A j \in 1..NDenoms :
               /\ summary_df[j].Nominal = DENOM_LABELS[j]
               /\ summary_df[j].Pocet_kusov =
                      CountTotal(per_person_df, DENOM_LABELS[j], Len(per_person_df))
               /\ to_cents(summary_df[j].Suma_EUR) =
                      summary_df[j].Pocet_kusov * denom_cents(DENOMS_EUR[j])
        /\ summary_df[NDenoms + 1].Nominal = Spolu
        /\ to_cents(summary_df[NDenoms + 1].Suma_EUR) =
               KontrolaTotal(per_person_df, Len(per_person_df))
        /\ to_cents(summary_df[NDenoms + 1].Suma_EUR) = SummaryValue(summary_df, NDenoms)

\* two persons, 12,34 and 0.66, calculated: 13,00 in total
AggregationWitness ==
    /\ summary_df # None
    /\ Len(per_person_df) = 2
    /\ persons[1].amount = Eur(12, 34)
    /\ persons[2].amount = Eur(0, 66)
    /\ summary_df[NDenoms + 1].Suma_EUR = Eur(13, 0)
    /\ summary_df[4].Pocet_kusov = 1
    /\ summary_df[6].Pocet_kusov = 1

\* C7: the person list never holds more than 100 persons; a click on "add
\* person" at 100 persons leaves the list as it is; a click on "add 10
\* persons" appends min(10, 100 - count) persons to it.
PersonCap ==
    /\ [](Len(persons) <= 100)
    /\ [][(ClickAdd /\ Len(persons) = 100) => persons' = persons]_vars
    /\ [][ClickAddTen =>
            /\ Len(persons') = Len(persons) + Min2(10, 100 - Len(persons))
            /\ SubSeq(persons', 1, Len(persons)) = persons]_vars

\* 100 persons again after a delete at 100 persons and an add
PersonCapWitness ==
    /\ Len(persons) = 100
    /\ next_id = 102
    /\ budget = 0

\* whether the text raw fails to parse
ParseFails(raw) == ~parse_amount_sk(raw)[1]

\* C8: when a person's text fails to parse in a run, the run does not
\* calculate and leaves the stored tables as they are, that person keeps the
\* stored amount, and a run in which the only new texts are failing ones
\* leaves the whole person list as it is.
InvalidInputBlocks ==
    /\ [](validation_errors # <<>> => ~do_calc)
    /\ [][validation_errors' # <<>> =>
            /\ per_person_df' = per_person_df
            /\ summary_df' = summary_df]_vars
    /\ [][\A k \in 1..Len(persons') :
            ParseFails(amt_txt'[persons'[k].id]) =>
                \E j \in 1..Len(persons) : persons[j] = persons'[k]]_vars
    /\ [][(/\ DOMAIN amt_txt' = DOMAIN amt_txt
           /\ amt_txt' # amt_txt
           /\ \A i \in DOMAIN amt_txt :
                  amt_txt'[i] # amt_txt[i] => ParseFails(amt_txt'[i]))
          => persons' = persons]_vars

\* person A holds 12,34, calculated; then "-5" is typed into A's field
InvalidInputWitness ==
    /\ Len(persons) = 1
    /\ persons[1].amount = Eur(12, 34)
    /\ amt_txt[persons[1].id] = <<"-", "5">>
    /\ validation_errors = <<(<<persons[1].code, ErrFormat>>)>>
    /\ per_person_df # None
    /\ calculated

\* C10: while calculated is set, the stored per-person table has one row per
\* person of the list, in the list's order, with the person's code and stored
\* amount; a run that changes the person list leaves calculated reset.
ResultsFresh ==
    /\ [](calculated =>
            /\ per_person_df # None
            /\ Len(per_person_df) = Len(persons)
            /\ \A k \in 1..Len(persons) :
                   /\ DictGet(per_person_df[k], ColOsoba, <<>>) = persons[k].code
                   /\ DictGet(per_person_df[k], ColSuma, Eur(0, 0)) = persons[k].amount)
    /\ [][persons' # persons => ~calculated']_vars

\* two persons, the second one with 0.66 typed, calculated
ResultsFreshWitness ==
    /\ calculated
    /\ Len(persons) = 2
    /\ persons[2].amount = Eur(0, 66)
    /\ DictGet(per_person_df[2], ColSuma, Eur(0, 0)) = Eur(0, 66)

=============================================================================
